---------------------------- MODULE Spec2Model ----------------------------
(***************************************************************************)
(* A model of ppycron's Unix backend (src/ppycron/src/unix.py): the        *)
(* crontab table is a text, a sequence of one-character strings, that the  *)
(* operations read with `crontab -l` and replace with `crontab <file>`.    *)
(* The string functions the code uses (split, strip, join, replace) are    *)
(* computed character by character.                                        *)
(***************************************************************************)
EXTENDS Integers, Sequences, FiniteSets, TLC

(***************************************************************************)
(* Characters and the text functions of Python's str.                      *)
(***************************************************************************)
NL == "\n"
SP == " "
HASH == "#"

\* str.isspace on the characters of the model's alphabet.
IsSpace(ch) == ch \in {SP, "\t", NL}

\* The positions 1..Len(s), in order.
Positions(s) == [k \in 1..Len(s) |-> k]

\* output.split("\n"): the lines of a text, the pieces between its newlines; a
\* text ending in "\n" has a last line that is empty.
SplitLines(s) ==
    LET cuts == <<0>> \o SelectSeq(Positions(s), LAMBDA k : s[k] = NL) \o <<Len(s) + 1>>
    IN  [j \in 1..(Len(cuts) - 1) |-> SubSeq(s, cuts[j] + 1, cuts[j + 1] - 1)]

\* line.split(): the maximal runs of non-whitespace characters.
Words(s) ==
    LET starts == SelectSeq(Positions(s),
                            LAMBDA k : ~IsSpace(s[k]) /\ (k = 1 \/ IsSpace(s[k - 1])))
        ends == SelectSeq(Positions(s),
                          LAMBDA k : ~IsSpace(s[k]) /\ (k = Len(s) \/ IsSpace(s[k + 1])))
    IN  [j \in 1..Len(starts) |-> SubSeq(s, starts[j], ends[j])]

\* s.strip(): from the first to the last character that is not whitespace.
Strip(s) ==
    LET inked == SelectSeq(Positions(s), LAMBDA k : ~IsSpace(s[k]))
    IN  IF inked = <<>> THEN <<>> ELSE SubSeq(s, inked[1], inked[Len(inked)])

\* sep.join(parts)
RECURSIVE Join(_, _)
Join(sep, parts) ==
    IF parts = <<>> THEN <<>>
    ELSE IF Len(parts) = 1 THEN Head(parts)
    ELSE Head(parts) \o sep \o Join(sep, Tail(parts))

\* s.startswith(p)
StartsWith(s, p) == Len(s) >= Len(p) /\ SubSeq(s, 1, Len(p)) = p

\* s.replace("", new): new before every character and at the end.
RECURSIVE ReplaceEmpty(_, _)
ReplaceEmpty(s, new) ==
    IF s = <<>> THEN new ELSE new \o <<Head(s)>> \o ReplaceEmpty(Tail(s), new)

\* s.replace(old, new): every non-overlapping occurrence, leftmost first.
RECURSIVE Replace(_, _, _)
Replace(s, old, new) ==
    IF old = <<>> THEN ReplaceEmpty(s, new)
    ELSE IF Len(s) < Len(old) THEN s
    ELSE IF SubSeq(s, 1, Len(old)) = old
         THEN new \o Replace(SubSeq(s, Len(old) + 1, Len(s)), old, new)
         ELSE <<Head(s)>> \o Replace(Tail(s), old, new)

\* words[:5] and words[5:]
FirstFive(w) == SubSeq(w, 1, IF Len(w) < 5 THEN Len(w) ELSE 5)
AfterFive(w) == IF Len(w) <= 5 THEN <<>> ELSE SubSeq(w, 6, Len(w))


(***************************************************************************)
(* The Cron entry (ppycron.src.base, not among the source files: modelled  *)
(* from the specification's sections 3, 4.1, 4.2 and 6).                   *)
(***************************************************************************)
Digits == <<"0", "1", "2", "3", "4", "5", "6", "7", "8", "9">>
IsDigit(ch) == \E k \in 1..Len(Digits) : Digits[k] = ch
DigitVal(ch) == (CHOOSE k \in 1..Len(Digits) : Digits[k] = ch) - 1

IsNumber(s) == s # <<>> /\ \A k \in 1..Len(s) : IsDigit(s[k])

RECURSIVE NumVal(_)
NumVal(s) == IF s = <<>> THEN 0 ELSE NumVal(SubSeq(s, 1, Len(s) - 1)) * 10 + DigitVal(s[Len(s)])

\* s.split(sep) for a one-character separator.
RECURSIVE SplitOn(_, _)
SplitOn(s, sep) ==
    IF s = <<>> THEN << <<>> >>
    ELSE LET rest == SplitOn(Tail(s), sep)
         IN  IF Head(s) = sep
             THEN << <<>> >> \o rest
             ELSE << <<Head(s)>> \o Head(rest) >> \o Tail(rest)

\* The bounds of the five fields: minute, hour, day of month, month, day of week.
FieldMin == <<0, 0, 1, 1, 0>>
FieldMax == <<59, 23, 31, 12, 6>>

InBounds(s, k) == IsNumber(s) /\ NumVal(s) >= FieldMin[k] /\ NumVal(s) <= FieldMax[k]

\* a-b with a <= b, both within the field's bounds.
IsRange(s, k) ==
    LET ab == SplitOn(s, "-")
    IN  Len(ab) = 2 /\ InBounds(ab[1], k) /\ InBounds(ab[2], k)
        /\ NumVal(ab[1]) <= NumVal(ab[2])

\* One item of a field: *, a number, a range, or a step */n or a-b/n.
IsItem(s, k) ==
    LET parts == SplitOn(s, "/")
    IN  \/ s = <<"*">>
        \/ InBounds(s, k)
        \/ IsRange(s, k)
        \/ /\ Len(parts) = 2
           /\ parts[1] = <<"*">> \/ IsRange(parts[1], k)
           /\ IsNumber(parts[2]) /\ NumVal(parts[2]) >= 1

\* A field: a comma-separated list of items.
IsField(s, k) ==
    LET items == SplitOn(s, ",")
    IN  \A j \in 1..Len(items) : IsItem(items[j], k)

\* is_valid_cron_format(expression): exactly five whitespace-separated fields.
IsValidCronFormat(expression) ==
    LET fields == Words(expression)
    IN  Len(fields) = 5 /\ \A k \in 1..5 : IsField(fields[k], k)

\* Cron(command=..., interval=...) raises ValueError unless this holds.
CronValid(command, interval) == command # <<>> /\ IsValidCronFormat(interval)

\* str(cron): the line format, interval + space + command.
CronStr(command, interval) == interval \o <<SP>> \o command

Entry(command, interval) == [command |-> command, interval |-> interval]

(***************************************************************************)
(* The pure parts of UnixInterface's methods.                              *)
(***************************************************************************)
\* The constructor's line without its newline.
Header_NoNewline == <<"#", " ", "C", "r", "e", "a", "t", "e", "d", " ", "a", "u", "t", "o", "m", "a", "t", "i", "c", "a", "l", "l", "y", " ", "b", "y", " ", "P", "y", "c", "r", "o", "n", " ", "=", ")">>

\* The text the constructor installs.
Header == <<"#", " ", "C", "r", "e", "a", "t", "e", "d", " ", "a", "u", "t", "o", "m", "a", "t", "i", "c", "a", "l", "l", "y", " ", "b", "y", " ", "P", "y", "c", "r", "o", "n", " ", "=", ")", "\n">>

\* line.strip() == "" or line.startswith("#")
IsSkipped(line) == Strip(line) = <<>> \/ StartsWith(line, <<HASH>>)

\* " ".join(line.split()[:5])
ParseInterval(line) == Join(<<SP>>, FirstFive(Words(line)))

\* " ".join(line.split()[5:]).strip()
ParseCommand(line) == Strip(Join(<<SP>>, AfterFive(Words(line))))

\* add with the line's newline forgotten.
AddText_NoNewline(current, command, interval) == current \o CronStr(command, interval)

\* add: current += str(cron) + "\n"
AddText(current, command, interval) == current \o CronStr(command, interval) \o <<NL>>

\* get_all: the entries of a listing, one per data line with a command.
RECURSIVE GetAllLines(_)
GetAllLines(lines) ==
    IF lines = <<>> THEN <<>>
    ELSE LET line == Head(lines)
         IN  IF IsSkipped(line) THEN GetAllLines(Tail(lines))
             ELSE IF ParseCommand(line) # <<>>
                  THEN <<Entry(ParseCommand(line), ParseInterval(line))>>
                           \o GetAllLines(Tail(lines))
                  ELSE GetAllLines(Tail(lines))

GetAllOf(output) == GetAllLines(SplitLines(output))

\* get_all: whether Cron(command=command, interval=interval) raises for one of
\* the entries, which ends get_all with that ValueError.
GetAllRaises(output) ==
    \E k \in 1..Len(GetAllOf(output)) :
        ~CronValid(GetAllOf(output)[k].command, GetAllOf(output)[k].interval)

\* edit: kwargs.get("command", cron_command) and kwargs.get("interval");
\* an absent interval (None) is the empty text.
NewCommand(cron_command, kw) == IF kw.hasCommand THEN kw.command ELSE cron_command
NewInterval(kw) == kw.interval

\* edit matching a line whose command merely starts with cron_command.
EditMatches_Prefix(line, cron_command) ==
    ~IsSkipped(line) /\ StartsWith(ParseCommand(line), cron_command)

\* edit: whether the loop's test, command == cron_command, holds of a line.
EditMatches(line, cron_command) == ~IsSkipped(line) /\ ParseCommand(line) = cron_command

\* edit: what the loop appends to lines for one line of the listing.
EditLine(line, cron_command, new_command, new_interval) ==
    IF EditMatches(line, cron_command)
    THEN LET l1 == IF new_interval # <<>>
                   THEN Replace(line, ParseInterval(line), new_interval)
                   ELSE line
         IN  IF new_command # <<>>
             THEN Replace(l1, ParseCommand(line), new_command)
             ELSE l1
    ELSE line

\* edit stopping at the first line that matches.
EditLines_FirstOnly(output, cron_command, new_command, new_interval) ==
    LET ls == SplitLines(output)
        first == CHOOSE k \in 1..(Len(ls) + 1) :
                    /\ k <= Len(ls) => EditMatches(ls[k], cron_command)
                    /\ \A j \in 1..(k - 1) : ~EditMatches(ls[j], cron_command)
    IN  [k \in 1..Len(ls) |->
            IF k = first THEN EditLine(ls[k], cron_command, new_command, new_interval)
            ELSE ls[k]]

EditLines(output, cron_command, new_command, new_interval) ==
    LET ls == SplitLines(output)
    IN  [k \in 1..Len(ls) |-> EditLine(ls[k], cron_command, new_command, new_interval)]

\* edit writing back whether or not a line matched, as delete does.
EditModified_Always(output, cron_command) == TRUE

\* edit with modified set by the last data line alone, not kept from earlier ones.
EditModified_Last(output, cron_command) ==
    LET ls == SelectSeq(SplitLines(output), LAMBDA line : ~IsSkipped(line))
    IN  ls # <<>> /\ ParseCommand(ls[Len(ls)]) = cron_command

\* edit: modified
EditModified(output, cron_command) ==
    LET ls == SplitLines(output)
    IN  \E k \in 1..Len(ls) : EditMatches(ls[k], cron_command)

\* edit: current = "\n".join(lines) + "\n"
EditText(output, cron_command, new_command, new_interval) ==
    Join(<<NL>>, EditLines(output, cron_command, new_command, new_interval)) \o <<NL>>

\* delete dropping every line whose command starts with cron_command.
DeleteKeeps_Prefix(line, cron_command) ==
    IsSkipped(line) \/ ~StartsWith(ParseCommand(line), cron_command)

\* delete keeping only the data lines, the comments and blank lines forgotten.
DeleteKeeps_DataOnly(line, cron_command) ==
    ~IsSkipped(line) /\ ParseCommand(line) # cron_command

\* delete: whether the loop appends a line to lines.
DeleteKeeps(line, cron_command) == IsSkipped(line) \/ ParseCommand(line) # cron_command

DeleteLines(output, cron_command) ==
    SelectSeq(SplitLines(output), LAMBDA line : DeleteKeeps(line, cron_command))

\* delete: current = "\n".join(lines) + "\n"
DeleteText(output, cron_command) == Join(<<NL>>, DeleteLines(output, cron_command)) \o <<NL>>

(***************************************************************************)
(* Bounds and the inputs the operations are called with.                   *)
(***************************************************************************)
\* How many operations (calls and external changes of the table) a run makes.
MaxCalls == 3

Empty == <<>>

\* Commands: a word, two words, two words two spaces apart, and a word that
\* is also a field of an interval.
Cmd_a == <<"a">>
Cmd_ab == <<"a", " ", "b">>
Cmd_a2b == <<"a", " ", " ", "b">>
Cmd_1 == <<"1">>
Commands == {Cmd_a, Cmd_ab, Cmd_a2b, Cmd_1}

Ivl_star == <<"*", " ", "*", " ", "*", " ", "*", " ", "*">>
Ivl_one == <<"1", " ", "*", " ", "*", " ", "*", " ", "*">>
Ivl_bad == <<"*", " ", "*", " ", "*", " ", "*">>
\* Five fields, the first out of its range: add rejects it.
Ivl_high == <<"6", "1", " ", "*", " ", "*", " ", "*", " ", "*">>
Intervals == {Ivl_star, Ivl_one}

\* What add is called with: the empty command and an invalid interval too.
AddCommands == Commands \cup {Empty}
AddIntervals == Intervals \cup {Ivl_bad}

\* What edit and delete are called with.
MatchCommands == Commands \cup {Empty}
EditKwargs ==
    [hasCommand : {FALSE}, command : {Empty}, interval : {Ivl_one}]
        \cup [hasCommand : {TRUE}, command : {Cmd_ab}, interval : {Ivl_one, Empty}]
        \cup [hasCommand : {FALSE}, command : {Empty}, interval : {Ivl_high}]

\* Tables installed from outside the library (crontab -e, another tool): a
\* comment, a blank line, data lines with irregular spacing and a line with
\* fewer than six words. Each ends with a newline: crontab refuses to install
\* a file whose last line has none.
Ext_mixed == <<"#", " ", "c", "\n", "\n", "1", " ", " ", "*", " ", "*", " ", "*", " ", "*", " ", " ", "a", "\n", "*", " ", "*", " ", "*", " ", "*", " ", "*", " ", "a", " ", "b", "\n", "*", " ", "*", " ", "*", " ", "a", "\n">>
Ext_plain == <<"1", " ", "*", " ", "*", " ", "*", " ", "*", " ", "1", "\n", "*", " ", "*", " ", "*", " ", "*", " ", "*", " ", "a", "\n">>
ExternalTables == {Ext_mixed, Ext_plain}

Clients == {1, 2}
\* The one client of sequential use.
SeqClients == {1}

(***************************************************************************)
(* The state.                                                              *)
(***************************************************************************)
VARIABLES
    hasTable,   \* whether the user has a crontab: crontab -l succeeds
    table,      \* the installed crontab, a text
    pc,         \* per client: "idle", or the install step its call is at
    cur,        \* per client: the call in progress
    last,       \* the last operation that ended (a history variable)
    calls       \* the operations started so far

vars == <<hasTable, table, pc, cur, last, calls>>

NoLost == [op |-> "none", command |-> Empty, interval |-> Empty]

NoKw == [hasCommand |-> FALSE, command |-> Empty, interval |-> Empty]

\* A call: its method and arguments, what crontab -l gave it (listed: whether
\* the listing succeeded; output: its text), the text it installs, whether it
\* raised, whether it installed a table, what it returned (ret for a boolean,
\* entries for an Entry or a list of them), and lost: the call whose table its
\* install replaced without having read it. Its temporary file: stage is how
\* far the with-block has come ("none", "written", "flushed", "installed"),
\* buffer what f.write has handed to the file object, disk what the file holds
\* on disk. History: fault is what cut the call short ("none", "install" for a
\* failed crontab <file>, "killed" for an interrupted process), again whether
\* a get_all came right after another get_all, hadTable whether a table
\* existed when a constructor began and hadEntries whether it held entries.
\* reads and writes count the runs of crontab -l and of crontab <file>. tmp is
\* whether the temporary file the call has created exists.
Call(op, command, interval, kw) ==
    [op |-> op, command |-> command, interval |-> interval, kw |-> kw,
     listed |-> FALSE, output |-> Empty, current |-> Empty,
     raised |-> FALSE, wrote |-> FALSE, ret |-> FALSE, entries |-> <<>>,
     lost |-> NoLost,
     stage |-> "none", buffer |-> Empty, disk |-> Empty,
     fault |-> "none", again |-> FALSE, hadTable |-> FALSE, hadEntries |-> FALSE,
     reads |-> 0, writes |-> 0, tmp |-> FALSE]

NoCall == Call("none", Empty, Empty, NoKw)

\* subprocess.check_output(["crontab", "-l"]): whether it succeeded, and its
\* text (empty when it failed).
Listing(c) ==
    [c EXCEPT !.listed = hasTable, !.output = IF hasTable THEN table ELSE Empty,
              !.reads = c.reads + 1]

Idle == \A p \in Clients : pc[p] = "idle"

\* The state after construction: __init__ has installed the header.
Init ==
    /\ hasTable = TRUE
    /\ table = Header
    /\ pc = [p \in Clients |-> "idle"]
    /\ cur = [p \in Clients |-> NoCall]
    /\ last = [NoCall EXCEPT !.op = "init", !.current = Header, !.wrote = TRUE,
                             !.writes = 1]
    /\ calls = 0

\* A call begins.
Begin(p) == pc[p] = "idle" /\ calls < MaxCalls /\ calls' = calls + 1

\* A call ends without installing anything.
Return(p, c) ==
    /\ last' = c
    /\ UNCHANGED <<hasTable, table, pc, cur>>

\* A call goes on to its install step with the text it has prepared.
GoInstall(p, c, step) ==
    /\ pc' = [pc EXCEPT ![p] = step]
    /\ cur' = [cur EXCEPT ![p] = c]
    /\ UNCHANGED <<hasTable, table, last>>

\* The call whose table client p's install replaces unread: the table is what
\* the last call installed, and is not what p's listing gave.
Overwritten(p) ==
    IF last.wrote /\ hasTable /\ table = last.current
          /\ ~(cur[p].listed /\ cur[p].output = table)
    THEN [op |-> last.op, command |-> last.command, interval |-> last.interval]
    ELSE NoLost

\* An install that reads the table again and applies an add to what it finds.
Install_Fresh(p, step, done) ==
    /\ pc[p] = step
    /\ hasTable' = TRUE
    /\ table' = IF done.op = "add"
                THEN AddText(IF hasTable THEN table ELSE Empty, done.command, done.interval)
                ELSE cur[p].current
    /\ last' = [done EXCEPT !.wrote = TRUE, !.lost = Overwritten(p)]
    /\ pc' = [pc EXCEPT ![p] = "idle"]
    /\ cur' = [cur EXCEPT ![p] = NoCall]
    /\ UNCHANGED calls

\* The install step: the temporary file is written, crontab <file> replaces the
\* table with it, and the call returns.
Install(p, step, done) ==
    /\ pc[p] = step
    /\ hasTable' = TRUE
    /\ table' = cur[p].current
    /\ last' = [done EXCEPT !.wrote = TRUE, !.lost = Overwritten(p),
                            !.writes = done.writes + 1]
    /\ pc' = [pc EXCEPT ![p] = "idle"]
    /\ cur' = [cur EXCEPT ![p] = NoCall]
    /\ UNCHANGED calls

\* A constructor that installs the header only when there is no table.
Construct_KeepExisting(p) ==
    /\ Begin(p)
    /\ hasTable' = TRUE
    /\ table' = IF hasTable THEN table ELSE Header
    /\ last' = [NoCall EXCEPT !.op = "init", !.current = Header, !.wrote = TRUE,
                              !.writes = 1, !.hadTable = hasTable,
                              !.hadEntries = (hasTable /\ GetAllOf(table) # <<>>)]
    /\ UNCHANGED <<pc, cur>>

\* A constructor that appends its header to the table it finds.
Construct_Append(p) ==
    /\ Begin(p)
    /\ hasTable' = TRUE
    /\ table' = (IF hasTable THEN table ELSE Empty) \o Header
    /\ last' = [NoCall EXCEPT !.op = "init", !.current = Header, !.wrote = TRUE,
                              !.writes = 1, !.hadTable = hasTable,
                              !.hadEntries = (hasTable /\ GetAllOf(table) # <<>>)]
    /\ UNCHANGED <<pc, cur>>

\* __init__: a new instance installs the header over whatever the table held.
Construct(p) ==
    /\ Begin(p)
    /\ hasTable' = TRUE
    /\ table' = Header
    /\ last' = [NoCall EXCEPT !.op = "init", !.current = Header, !.wrote = TRUE,
                              !.writes = 1, !.hadTable = hasTable,
                              !.hadEntries = (hasTable /\ GetAllOf(table) # <<>>)]
    /\ UNCHANGED <<pc, cur>>

\* An add that reads the table before it validates its arguments.
AddRead_ValidateLate(p, command, interval) ==
    /\ Begin(p)
    /\ LET r == Listing(Call("add", command, interval, NoKw))
       IN  IF ~CronValid(command, interval)
           THEN Return(p, [r EXCEPT !.raised = TRUE])
           ELSE GoInstall(p, [r EXCEPT !.current = AddText(r.output, command, interval)],
                          "add_install")

\* An add that starts from the constructor's header when the listing fails.
AddRead_HeaderOnFailure(p, command, interval) ==
    /\ Begin(p)
    /\ LET c == Call("add", command, interval, NoKw)
           r == Listing(c)
           current == IF r.listed THEN r.output ELSE Header
       IN  IF ~CronValid(command, interval)
           THEN Return(p, [c EXCEPT !.raised = TRUE])
           ELSE GoInstall(p, [r EXCEPT !.current = AddText(current, command, interval)],
                          "add_install")

\* An add that appends to the listing the instance has kept from its previous
\* call, when it has one.
AddRead_Cached(p, command, interval) ==
    /\ Begin(p)
    /\ LET c == Call("add", command, interval, NoKw)
           r == Listing(c)
           current == IF last.listed THEN last.output ELSE r.output
       IN  IF ~CronValid(command, interval)
           THEN Return(p, [c EXCEPT !.raised = TRUE])
           ELSE GoInstall(p, [r EXCEPT !.current = AddText(current, command, interval)],
                          "add_install")

\* add, up to the listing: Cron(...) validates, crontab -l is read (a failure
\* gives the empty text), and the new line is appended.
AddRead(p, command, interval) ==
    /\ Begin(p)
    /\ LET c == Call("add", command, interval, NoKw)
           r == Listing(c)
       IN  IF ~CronValid(command, interval)
           THEN Return(p, [c EXCEPT !.raised = TRUE])
           ELSE GoInstall(p, [r EXCEPT !.current = AddText(r.output, command, interval)],
                          "add_install")

\* add: the install, and return cron.
AddInstall(p) ==
    Install(p, "add_install",
            [cur[p] EXCEPT !.entries = <<Entry(cur[p].command, cur[p].interval)>>])

\* A get_all that lets a failed listing raise.
GetAll_Raise(p) ==
    /\ Begin(p)
    /\ LET r == Listing(Call("get_all", Empty, Empty, NoKw))
       IN  Return(p, [r EXCEPT !.entries = IF r.listed /\ ~GetAllRaises(r.output)
                                           THEN GetAllOf(r.output) ELSE <<>>,
                               !.raised = ~r.listed \/ GetAllRaises(r.output),
                               !.again = (last.op = "get_all")])

\* A get_all that writes back the lines it has read, as edit and delete do.
GetAll_WriteBack(p) ==
    /\ Begin(p)
    /\ LET r == Listing(Call("get_all", Empty, Empty, NoKw))
       IN  /\ last' = [r EXCEPT !.entries = IF r.listed /\ ~GetAllRaises(r.output)
                                            THEN GetAllOf(r.output) ELSE <<>>,
                                !.raised = r.listed /\ GetAllRaises(r.output),
                                !.again = (last.op = "get_all")]
           /\ hasTable' = TRUE
           /\ table' = Join(<<NL>>, SplitLines(r.output)) \o <<NL>>
           /\ UNCHANGED <<pc, cur>>

\* get_all: a failed listing gives [], and the Cron built for an entry may
\* raise.
GetAll(p) ==
    /\ Begin(p)
    /\ LET r == Listing(Call("get_all", Empty, Empty, NoKw))
       IN  Return(p, [r EXCEPT !.entries = IF r.listed /\ ~GetAllRaises(r.output)
                                           THEN GetAllOf(r.output) ELSE <<>>,
                               !.raised = r.listed /\ GetAllRaises(r.output),
                               !.again = (last.op = "get_all")])

\* An edit that does not look at whether cron_command is empty.
EditRead_NoCheck(p, cron_command, kw) ==
    /\ Begin(p)
    /\ LET r == Listing(Call("edit", cron_command, Empty, kw))
       IN  IF ~r.listed
           THEN Return(p, [r EXCEPT !.ret = FALSE])
           ELSE IF EditModified(r.output, cron_command)
           THEN GoInstall(p, [r EXCEPT !.current =
                                 EditText(r.output, cron_command,
                                          NewCommand(cron_command, kw), NewInterval(kw))],
                          "edit_install")
           ELSE Return(p, [r EXCEPT !.ret = FALSE])

\* edit, up to the listing and the loop over its lines.
EditRead(p, cron_command, kw) ==
    /\ Begin(p)
    /\ LET c == Call("edit", cron_command, Empty, kw)
           r == Listing(c)
       IN  IF cron_command = Empty
           THEN Return(p, [c EXCEPT !.raised = TRUE])
           ELSE IF ~r.listed
           THEN Return(p, [r EXCEPT !.ret = FALSE])
           ELSE IF EditModified(r.output, cron_command)
           THEN GoInstall(p, [r EXCEPT !.current =
                                 EditText(r.output, cron_command,
                                          NewCommand(cron_command, kw), NewInterval(kw))],
                          "edit_install")
           ELSE Return(p, [r EXCEPT !.ret = FALSE])

\* edit: the install, and return True.
EditInstall(p) == Install(p, "edit_install", [cur[p] EXCEPT !.ret = TRUE])

\* A delete that takes a failed listing for an empty table, as add does.
DeleteRead_EmptyOnFailure(p, cron_command) ==
    /\ Begin(p)
    /\ LET c == Call("delete", cron_command, Empty, NoKw)
           r == Listing(c)
       IN  IF cron_command = Empty
           THEN Return(p, [c EXCEPT !.raised = TRUE])
           ELSE GoInstall(p, [r EXCEPT !.current = DeleteText(r.output, cron_command)],
                          "delete_install")

\* A delete that writes back only when a line matched, as edit does.
DeleteRead_OnlyIfMatched(p, cron_command) ==
    /\ Begin(p)
    /\ LET c == Call("delete", cron_command, Empty, NoKw)
           r == Listing(c)
       IN  IF cron_command = Empty
           THEN Return(p, [c EXCEPT !.raised = TRUE])
           ELSE IF ~r.listed
           THEN Return(p, [r EXCEPT !.ret = FALSE])
           ELSE IF EditModified(r.output, cron_command)
           THEN GoInstall(p, [r EXCEPT !.current = DeleteText(r.output, cron_command)],
                          "delete_install")
           ELSE Return(p, [r EXCEPT !.ret = TRUE])

\* delete, up to the listing and the loop over its lines.
DeleteRead(p, cron_command) ==
    /\ Begin(p)
    /\ LET c == Call("delete", cron_command, Empty, NoKw)
           r == Listing(c)
       IN  IF cron_command = Empty
           THEN Return(p, [c EXCEPT !.raised = TRUE])
           ELSE IF ~r.listed
           THEN Return(p, [r EXCEPT !.ret = FALSE])
           ELSE GoInstall(p, [r EXCEPT !.current = DeleteText(r.output, cron_command)],
                          "delete_install")

\* delete: the install, and return True.
DeleteInstall(p) == Install(p, "delete_install", [cur[p] EXCEPT !.ret = TRUE])

\* The table is replaced from outside the library.
ExternalInstall(text) ==
    /\ calls < MaxCalls
    /\ calls' = calls + 1
    /\ hasTable' = TRUE
    /\ table' = text
    /\ last' = [NoCall EXCEPT !.op = "external", !.current = text]
    /\ UNCHANGED <<pc, cur>>

\* The table is removed from outside the library (crontab -r).
ExternalRemove ==
    /\ calls < MaxCalls
    /\ calls' = calls + 1
    /\ hasTable
    /\ hasTable' = FALSE
    /\ table' = Empty
    /\ last' = [NoCall EXCEPT !.op = "external"]
    /\ UNCHANGED <<pc, cur>>

\* Sequential use: one client, and the table changes from outside only
\* between its calls.
Next ==
    \E p \in SeqClients :
        \/ Construct(p)
        \/ \E command \in AddCommands, interval \in AddIntervals : AddRead(p, command, interval)
        \/ AddInstall(p)
        \/ GetAll(p)
        \/ \E cron_command \in MatchCommands, kw \in EditKwargs : EditRead(p, cron_command, kw)
        \/ EditInstall(p)
        \/ \E cron_command \in MatchCommands : DeleteRead(p, cron_command)
        \/ DeleteInstall(p)
        \/ Idle /\ \E text \in ExternalTables : ExternalInstall(text)
        \/ Idle /\ ExternalRemove

Spec == Init /\ [][Next]_vars

\* Sequential use of the library alone: one client, and nothing but the
\* library touches the table. edit is also given an interval of four fields.
ApiKwargs == EditKwargs \cup [hasCommand : {FALSE}, command : {Empty}, interval : {Ivl_bad}]

NextApi ==
    \E p \in SeqClients :
        \/ Construct(p)
        \/ \E command \in AddCommands, interval \in AddIntervals : AddRead(p, command, interval)
        \/ AddInstall(p)
        \/ GetAll(p)
        \/ \E cron_command \in MatchCommands, kw \in ApiKwargs : EditRead(p, cron_command, kw)
        \/ EditInstall(p)
        \/ \E cron_command \in MatchCommands : DeleteRead(p, cron_command)
        \/ DeleteInstall(p)

SpecApi == Init /\ [][NextApi]_vars

\* What two concurrent clients call the operations with.
ConcCommands == {Cmd_a, Cmd_ab}
ConcKwargs == {[hasCommand |-> TRUE, command |-> Cmd_ab, interval |-> Empty]}

\* Concurrent use: two clients (two processes of the same user), each call a
\* listing step and, later, an install step; the steps of the two interleave.
NextConc ==
    \E p \in Clients :
        \/ \E command \in ConcCommands : AddRead(p, command, Ivl_star)
        \/ AddInstall(p)
        \/ GetAll(p)
        \/ \E cron_command \in ConcCommands, kw \in ConcKwargs : EditRead(p, cron_command, kw)
        \/ EditInstall(p)
        \/ \E cron_command \in ConcCommands : DeleteRead(p, cron_command)
        \/ DeleteInstall(p)

SpecConc == Init /\ [][NextConc]_vars

(***************************************************************************)
(* The write-back, step by step. Each of __init__, add, edit and delete    *)
(* ends with the same block: a NamedTemporaryFile(delete=False) is opened, *)
(* the text is written and flushed, crontab <file> installs it, and the    *)
(* file is unlinked. crontab <file> replaces the user's table as a whole   *)
(* (it installs by renaming a complete copy) or fails and leaves it alone. *)
(***************************************************************************)
InstallSteps == {"init_install", "add_install", "edit_install", "delete_install"}

\* What a call that has installed its table returns: add the Cron it built,
\* edit and delete True, __init__ nothing.
Done(c) ==
    IF c.op = "add" THEN [c EXCEPT !.entries = <<Entry(c.command, c.interval)>>]
    ELSE IF c.op \in {"edit", "delete"} THEN [c EXCEPT !.ret = TRUE]
    ELSE c

\* __init__, up to its with-block: the text to install is the header.
ConstructBegin(p) ==
    /\ Begin(p)
    /\ GoInstall(p, [NoCall EXCEPT !.op = "init", !.current = Header,
                                   !.hadTable = hasTable,
                                   !.hadEntries = (hasTable /\ GetAllOf(table) # <<>>)],
                 "init_install")

\* NamedTemporaryFile("w", delete=False) creates the file, and
\* f.write(current): the text is in the file object's buffer, and the new
\* file on disk is still empty.
WriteTemp(p) ==
    /\ pc[p] \in InstallSteps
    /\ cur[p].stage = "none"
    /\ cur' = [cur EXCEPT ![p].stage = "written", ![p].buffer = cur[p].current,
                          ![p].disk = Empty, ![p].tmp = TRUE]
    /\ UNCHANGED <<hasTable, table, pc, last, calls>>

\* A with-block that goes on to crontab <file> without flushing.
FlushTemp_Skip(p) ==
    /\ pc[p] \in InstallSteps
    /\ cur[p].stage = "written"
    /\ cur' = [cur EXCEPT ![p].stage = "flushed"]
    /\ UNCHANGED <<hasTable, table, pc, last, calls>>

\* f.flush(): the buffer reaches the disk.
FlushTemp(p) ==
    /\ pc[p] \in InstallSteps
    /\ cur[p].stage = "written"
    /\ cur' = [cur EXCEPT ![p].stage = "flushed", ![p].disk = cur[p].buffer]
    /\ UNCHANGED <<hasTable, table, pc, last, calls>>

\* subprocess.run(["crontab", f.name], check=True) succeeds: the table is
\* what the file holds on disk.
RunCrontab(p) ==
    /\ pc[p] \in InstallSteps
    /\ cur[p].stage = "flushed"
    /\ hasTable' = TRUE
    /\ table' = cur[p].disk
    /\ cur' = [cur EXCEPT ![p].stage = "installed", ![p].wrote = TRUE,
                          ![p].writes = cur[p].writes + 1]
    /\ UNCHANGED <<pc, last, calls>>

\* A failed crontab <file> that is caught: the call returns as if it had
\* installed its table.
RunCrontabFails_Swallow(p) ==
    /\ pc[p] \in InstallSteps
    /\ cur[p].stage = "flushed"
    /\ last' = [Done(cur[p]) EXCEPT !.fault = "install"]
    /\ pc' = [pc EXCEPT ![p] = "idle"]
    /\ cur' = [cur EXCEPT ![p] = NoCall]
    /\ UNCHANGED <<hasTable, table, calls>>

\* subprocess.run(["crontab", f.name], check=True) fails: crontab leaves the
\* table alone, CalledProcessError leaves the with-block (os.unlink is not
\* reached, and closing a file made with delete=False does not remove it) and
\* the method: nothing catches it.
RunCrontabFails(p) ==
    /\ pc[p] \in InstallSteps
    /\ cur[p].stage = "flushed"
    /\ last' = [cur[p] EXCEPT !.raised = TRUE, !.fault = "install"]
    /\ pc' = [pc EXCEPT ![p] = "idle"]
    /\ cur' = [cur EXCEPT ![p] = NoCall]
    /\ UNCHANGED <<hasTable, table, calls>>

\* os.unlink(f.name), the end of the with-block, and the return.
UnlinkReturn(p) ==
    /\ pc[p] \in InstallSteps
    /\ cur[p].stage = "installed"
    /\ last' = Done([cur[p] EXCEPT !.tmp = FALSE])
    /\ pc' = [pc EXCEPT ![p] = "idle"]
    /\ cur' = [cur EXCEPT ![p] = NoCall]
    /\ UNCHANGED <<hasTable, table, calls>>

\* The process is interrupted in the middle of a call: the call never
\* returns, and whatever it has done so far stays done.
Kill(p) ==
    /\ pc[p] \in InstallSteps
    /\ last' = [cur[p] EXCEPT !.fault = "killed"]
    /\ pc' = [pc EXCEPT ![p] = "idle"]
    /\ cur' = [cur EXCEPT ![p] = NoCall]
    /\ UNCHANGED <<hasTable, table, calls>>

\* Sequential use of the library alone, the write-back taken step by step,
\* with an install that may fail and a process that may be interrupted.
NextSteps ==
    \E p \in SeqClients :
        \/ ConstructBegin(p)
        \/ \E command \in ConcCommands : AddRead(p, command, Ivl_star)
        \/ GetAll(p)
        \/ \E cron_command \in ConcCommands, kw \in ConcKwargs : EditRead(p, cron_command, kw)
        \/ \E cron_command \in ConcCommands : DeleteRead(p, cron_command)
        \/ WriteTemp(p)
        \/ FlushTemp(p)
        \/ RunCrontab(p)
        \/ RunCrontabFails(p)
        \/ UnlinkReturn(p)
        \/ Kill(p)

SpecSteps == Init /\ [][NextSteps]_vars

\* A third interval, of the multiple-tasks example: daily at 2.
Ivl_daily == <<"0", " ", "2", " ", "*", " ", "*", " ", "*">>
ScenarioIntervals == Intervals \cup {Ivl_daily}

\* The multiple-tasks scenario: a fresh backend, and nothing but add and
\* get_all.
NextScenario ==
    \E p \in SeqClients :
        \/ \E command \in Commands, interval \in ScenarioIntervals :
              AddRead(p, command, interval)
        \/ AddInstall(p)
        \/ GetAll(p)

SpecScenario == Init /\ [][NextScenario]_vars

\* Valid use: commands whose words are separated by single spaces, intervals
\* of the 5-field grammar.
ValidCommands == Commands \ {Cmd_a2b}
ValidKwargs == {kw \in EditKwargs : kw.interval = Empty \/ IsValidCronFormat(kw.interval)}

\* Sequential valid use of the library alone, from a fresh backend.
NextValid ==
    \E p \in SeqClients :
        \/ \E command \in ValidCommands, interval \in Intervals : AddRead(p, command, interval)
        \/ AddInstall(p)
        \/ GetAll(p)
        \/ \E cron_command \in ValidCommands, kw \in ValidKwargs : EditRead(p, cron_command, kw)
        \/ EditInstall(p)
        \/ \E cron_command \in ValidCommands : DeleteRead(p, cron_command)
        \/ DeleteInstall(p)

SpecValid == Init /\ [][NextValid]_vars

(***************************************************************************)
(* The claims.                                                             *)
(***************************************************************************)
\* Whether a list of entries holds one with this command.
HasCommand(entries, command) == \E k \in 1..Len(entries) : entries[k].command = command

\* The entries of a list whose command is not this one, in order.
Without(entries, command) == SelectSeq(entries, LAMBDA e : e.command # command)

\* An add, an edit or a delete that has just installed its table.
Installed(op) == last.op = op /\ last.wrote

\* An edit or a delete that has just ended, with a non-empty matching_command
\* and a table it could read.
EndedReadable(op) == last.op = op /\ ~last.raised /\ last.listed

\* C1: add(command, interval) followed immediately by get_all() returns an
\* entry with exactly that command and exactly that interval, whatever
\* whitespace the command holds. (The claim as stated; the code breaks it.)
C1_AddThenGetAll ==
    Installed("add") =>
        \E k \in 1..Len(GetAllOf(table)) :
            GetAllOf(table)[k] = Entry(last.command, last.interval)

\* C2: delete(matching_command) on a readable table returns true, and get_all()
\* afterwards returns the entries it returned before whose command is not
\* matching_command, with their intervals and in their order, and no other.
C2_DeleteRemovesExactly ==
    EndedReadable("delete") =>
        /\ last.wrote
        /\ last.ret = TRUE
        /\ ~HasCommand(GetAllOf(table), last.command)
        /\ GetAllOf(table) = Without(GetAllOf(last.output), last.command)

\* C2's case: a delete that removed an entry and kept another, whose command
\* starts with matching_command.
C2_Witness ==
    /\ EndedReadable("delete")
    /\ HasCommand(GetAllOf(last.output), last.command)
    /\ \E k \in 1..Len(GetAllOf(table)) :
          /\ GetAllOf(table)[k].command # last.command
          /\ StartsWith(GetAllOf(table)[k].command, last.command)

\* C3: after add(c, i) on a table with no other entry of command c,
\* edit(c, command=c2, interval=i2) returns true and get_all() has, at the
\* position of the edited entry, the entry (c2, i2), and no entry with command
\* c when c2 differs from c. (The claim as stated; the code breaks it.)
C3_EditAfterAdd ==
    [][(/\ Installed("add")
        /\ ~HasCommand(GetAllOf(last.output), last.command)
        /\ last'.op = "edit"
        /\ last'.command = last.command
        /\ last'.kw.hasCommand /\ last'.kw.command # Empty
        /\ IsValidCronFormat(last'.kw.interval))
       => LET pos == Len(GetAllOf(last.output)) + 1
              after == GetAllOf(table')
          IN  /\ last'.ret = TRUE
              /\ Len(after) >= pos
              /\ after[pos] = Entry(last'.kw.command, last'.kw.interval)
              /\ last'.kw.command # last.command => ~HasCommand(after, last.command)]_vars

\* C4: when an add installs its table over the table another add installed
\* after the first one's listing, both have returned their Entry and get_all()
\* returns what the listing held and the one new entry: the other add is lost.
C4_LostUpdate ==
    (Installed("add") /\ last.lost.op = "add") =>
        /\ last.entries = <<Entry(last.command, last.interval)>>
        /\ GetAllOf(table) =
               GetAllOf(last.output) \o <<Entry(last.command, last.interval)>>

\* C4's case: two adds of different commands have both returned, and the table
\* holds no entry of the first one's command.
C4_Witness ==
    /\ Installed("add") /\ last.lost.op = "add"
    /\ Idle
    /\ last.lost.command # last.command
    /\ ~HasCommand(GetAllOf(table), last.lost.command)
    /\ HasCommand(GetAllOf(table), last.command)

\* C5: a successful add returns the Entry of its arguments, and the table is
\* the text it read followed by the one line "interval command" and a newline:
\* the lines it read are all there, unchanged and in order.
C5_AddAppendsOneLine ==
    Installed("add") =>
        LET old == SplitLines(last.output)
            new == SplitLines(table)
            line == last.interval \o <<SP>> \o last.command
        IN  /\ last.entries = <<Entry(last.command, last.interval)>>
            /\ table = last.output \o line \o <<NL>>
            /\ Len(new) = Len(old) + 1
            /\ \A k \in 1..(Len(old) - 1) : new[k] = old[k]
            /\ old[Len(old)] = Empty
            /\ new[Len(old)] = line
            /\ new[Len(new)] = Empty

\* C5's case: an add to a table that held a comment, a blank line and entries.
C5_Witness ==
    /\ Installed("add")
    /\ last.listed
    /\ GetAllOf(last.output) # <<>>
    /\ \E j, k \in 1..(Len(SplitLines(last.output)) - 1) :
          /\ StartsWith(SplitLines(last.output)[j], <<HASH>>)
          /\ SplitLines(last.output)[k] = Empty

\* A line edit and delete must leave alone: a comment, a blank line, or a data
\* line whose parsed command is not matching_command.
Untouchable(line, matching_command) ==
    \/ StartsWith(line, <<HASH>>)
    \/ Strip(line) = Empty
    \/ ParseCommand(line) # matching_command

\* C6: edit and delete write back, unchanged and in order, every comment line,
\* every blank line and every data line whose parsed command is not
\* matching_command: edit leaves each at its place, delete writes exactly those.
C6_OtherLinesVerbatim ==
    LET old == SplitLines(last.output)
        new == SplitLines(table)
    IN  /\ (EndedReadable("edit") /\ last.wrote) =>
               /\ Len(new) = Len(old) + 1
               /\ \A k \in 1..Len(old) :
                      Untouchable(old[k], last.command) => new[k] = old[k]
        /\ (EndedReadable("delete") /\ last.wrote) =>
               new = SelectSeq(old, LAMBDA line : Untouchable(line, last.command))
                         \o <<Empty>>

\* C6's case: an edit of a table with a matching line, a comment, a blank line
\* before the end, a line of fewer than six words and a line whose command
\* starts with matching_command.
C6_Witness ==
    LET old == SplitLines(last.output)
    IN  /\ EndedReadable("edit") /\ last.wrote
        /\ table # last.output \o <<NL>>
        /\ \E c, b, f, x \in 1..(Len(old) - 1) :
              /\ StartsWith(old[c], <<HASH>>)
              /\ old[b] = Empty
              /\ ~IsSkipped(old[f]) /\ Len(Words(old[f])) < 6
              /\ ParseCommand(old[x]) # last.command
              /\ StartsWith(ParseCommand(old[x]), last.command)

\* C7: when no entry of the table has matching_command as its command, edit
\* returns false, installs nothing, and the table is as it was.
C7_EditNoMatch ==
    (EndedReadable("edit") /\ ~HasCommand(GetAllOf(last.output), last.command)) =>
        /\ last.ret = FALSE
        /\ ~last.wrote
        /\ hasTable /\ table = last.output

\* C7's case: an edit that matched none of the entries of a table that has some.
C7_Witness ==
    /\ EndedReadable("edit")
    /\ GetAllOf(last.output) # <<>>
    /\ ~HasCommand(GetAllOf(last.output), last.command)

\* A text without the newlines at its end.
RECURSIVE TrimNewlines(_)
TrimNewlines(s) ==
    IF s # <<>> /\ s[Len(s)] = NL THEN TrimNewlines(SubSeq(s, 1, Len(s) - 1)) ELSE s

\* C8: when no entry of the table has matching_command as its command, the
\* table after delete is, up to the newlines at its end, the table before it;
\* so it is after any number of such deletes, each starting from the last one's
\* table.
C8_DeleteNoMatch ==
    (Installed("delete") /\ ~HasCommand(GetAllOf(last.output), last.command)) =>
        TrimNewlines(table) = TrimNewlines(last.output)

\* C8's case: a delete that matched nothing, of a table with entries that an
\* earlier such delete or edit had already written (it ends with a blank line).
C8_Witness ==
    /\ Installed("delete")
    /\ GetAllOf(last.output) # <<>>
    /\ ~HasCommand(GetAllOf(last.output), last.command)
    /\ Len(last.output) >= 2
    /\ last.output[Len(last.output)] = NL
    /\ last.output[Len(last.output) - 1] = NL

\* C9: on a readable table edit returns true exactly when an entry's command
\* is matching_command, and installs a table exactly when it returns true.
C9_EditReturnsMatched ==
    EndedReadable("edit") =>
        /\ last.ret = TRUE <=> HasCommand(GetAllOf(last.output), last.command)
        /\ last.wrote <=> last.ret = TRUE

\* C9's case: an edit to the values the entry already has (its own command and
\* its own interval), followed in the table by an entry that does not match:
\* it returns true and installs the table.
C9_Witness ==
    LET es == GetAllOf(last.output)
    IN  /\ EndedReadable("edit")
        /\ last.ret = TRUE /\ last.wrote
        /\ NewCommand(last.command, last.kw) = last.command
        /\ \E k \in 1..(Len(es) - 1) :
              /\ es[k] = Entry(last.command, NewInterval(last.kw))
              /\ es[Len(es)].command # last.command
        /\ GetAllOf(table) = es

\* C10: on a table with no entry of command c, add(c, i) followed by delete(c)
\* makes get_all() return what it returned before the add, for every command
\* c. (The claim as stated; the code breaks it.)
C10_AddThenDelete ==
    [][(/\ Installed("add")
        /\ ~HasCommand(GetAllOf(last.output), last.command)
        /\ last'.op = "delete"
        /\ last'.command = last.command)
       => GetAllOf(table') = GetAllOf(last.output)]_vars

\* A step that ends a call: one that begins and returns at once, or one that
\* leaves its install step.
EndsCall ==
    \/ calls' = calls + 1 /\ pc' = pc
    \/ \E p \in Clients : pc[p] # "idle" /\ pc'[p] = "idle"

\* Whether every entry of a list has an interval of the 5-field grammar.
IntervalsValid(entries) ==
    \A k \in 1..Len(entries) : IsValidCronFormat(entries[k].interval)

\* C11: an add with an empty command or an invalid interval raises before the
\* table is read or written: the step that ends it leaves the table as it
\* was, and no Entry is returned.
C11_AddInvalidRaises ==
    [][(/\ EndsCall
        /\ last'.op = "add"
        /\ ~CronValid(last'.command, last'.interval))
       => /\ last'.raised
          /\ ~last'.listed
          /\ ~last'.wrote
          /\ last'.entries = <<>>
          /\ UNCHANGED <<hasTable, table>>]_vars

\* C11's case: an add with a command and a four-field interval has raised on
\* a table that holds entries.
C11_Witness ==
    /\ last.op = "add" /\ last.raised
    /\ last.command # Empty /\ last.interval = Ivl_bad
    /\ hasTable /\ GetAllOf(table) # <<>>

\* C12: an edit or a delete with an empty matching_command raises before
\* crontab is run: the table is neither read nor written, it is unchanged,
\* and no boolean is returned.
C12_EmptyMatchRaises ==
    [][(/\ EndsCall
        /\ last'.op \in {"edit", "delete"}
        /\ last'.command = Empty)
       => /\ last'.raised
          /\ ~last'.listed
          /\ ~last'.wrote
          /\ last'.ret = FALSE
          /\ UNCHANGED <<hasTable, table>>]_vars

\* C12's case: an edit with an empty matching_command has raised on a table
\* that holds entries.
C12_Witness ==
    /\ last.op = "edit" /\ last.command = Empty /\ last.raised
    /\ hasTable /\ GetAllOf(table) # <<>>

\* C13: when the listing fails, an edit or a delete with a non-empty
\* matching_command returns false instead of raising, writes nothing back,
\* and the table stays absent.
C13_NoTableReturnsFalse ==
    (/\ last.op \in {"edit", "delete"}
     /\ last.command # Empty
     /\ ~last.listed)
    => /\ ~last.raised
       /\ last.ret = FALSE
       /\ ~last.wrote
       /\ ~hasTable

\* C13's case: a delete with a non-empty matching_command has ended on a
\* user without a table.
C13_Witness ==
    /\ last.op = "delete" /\ last.command # Empty
    /\ ~last.listed /\ ~last.raised
    /\ ~hasTable

\* C14: when the listing fails, get_all returns the empty sequence instead of
\* raising, and neither creates nor changes the table.
C14_GetAllNoTable ==
    (last.op = "get_all" /\ ~last.listed)
    => /\ ~last.raised
       /\ last.entries = <<>>
       /\ ~last.wrote
       /\ ~hasTable

\* C14's case: a get_all has ended on a user without a table.
C14_Witness == last.op = "get_all" /\ ~last.listed /\ ~hasTable

\* C15: get_all never writes the table, and a get_all that comes right after
\* another get_all returns the same entries in the same order.
C15_GetAllReadOnly ==
    [][(EndsCall /\ last'.op = "get_all")
       => /\ UNCHANGED <<hasTable, table>>
          /\ ~last'.wrote
          /\ (last.op = "get_all" => last'.entries = last.entries)]_vars

\* C15's case: a get_all right after another get_all, on a table of two
\* entries or more.
C15_Witness ==
    /\ last.op = "get_all" /\ last.again
    /\ Len(last.entries) >= 2

\* C16: the write-back is atomic: whatever step a call is at, interrupted or
\* not, the installed table changes only in the one step in which crontab
\* installs the file, and then it is the complete new text.
C16_WriteBackAtomic ==
    [][(hasTable' # hasTable \/ table' # table)
       => \E p \in Clients :
             /\ cur[p].stage = "flushed"
             /\ cur'[p].stage = "installed"
             /\ hasTable'
             /\ table' = cur[p].current]_vars

\* C16's case: an add is interrupted after its temporary file is complete and
\* before crontab has installed it: the table is the text the add has read.
C16_Witness ==
    /\ last.op = "add" /\ last.fault = "killed" /\ last.stage = "flushed"
    /\ hasTable /\ table = last.output /\ table # last.current

\* C17: after the constructor the table exists and holds no entries, so the
\* next listing succeeds and a get_all that follows returns the empty
\* sequence, also when no table existed before.
C17_ConstructEmpty ==
    [][/\ last'.op = "init" => (hasTable' /\ GetAllOf(table') = <<>>)
       /\ (last.op = "init" /\ EndsCall /\ last'.op = "get_all")
          => (last'.listed /\ last'.entries = <<>>)]_vars

\* C17's case: a constructor has ended that began on a user without a table.
C17_Witness ==
    /\ last.op = "init" /\ ~last.hadTable
    /\ calls > 0 /\ hasTable

\* C18: when crontab <file> fails in add, edit or delete, the call raises (no
\* Entry, no boolean), it ends there, and the installed table is what the
\* call has read.
C18_InstallFailure ==
    (/\ Idle
     /\ last.fault = "install"
     /\ last.op \in {"add", "edit", "delete"})
    => /\ last.raised
       /\ last.entries = <<>>
       /\ last.ret = FALSE
       /\ ~last.wrote
       /\ hasTable = last.listed
       /\ table = last.output

\* C18's case: the install of an edit has failed on a table that holds
\* entries.
C18_Witness ==
    /\ Idle /\ last.fault = "install" /\ last.op = "edit"
    /\ last.current # table
    /\ GetAllOf(table) # <<>>

\* C19: after construction and any sequence of add, edit and delete, every
\* entry of the installed table, hence every entry get_all returns, has an
\* interval of the 5-field grammar: edit cannot install an interval add would
\* reject. (The claim as stated; the code breaks it.)
C19_IntervalInvariant ==
    (Idle /\ hasTable) => IntervalsValid(GetAllOf(table))

\* C20: on a fresh backend, after three adds of pairwise distinct commands
\* and pairwise distinct intervals, get_all returns exactly the three entries
\* added, in order. (The claim as stated; the code breaks it.)
C20_ThreeAdds ==
    (Installed("add") /\ calls = 3)
    => \A c1, c2, c3 \in Commands, i1, i2, i3 \in ScenarioIntervals :
          (/\ c1 # c2 /\ c1 # c3 /\ c2 # c3
           /\ i1 # i2 /\ i1 # i3 /\ i2 # i3
           /\ table = AddText(AddText(AddText(Header, c1, i1), c2, i2), c3, i3))
          => GetAllOf(table) = <<Entry(c1, i1), Entry(c2, i2), Entry(c3, i3)>>

\* A line that is not blank after trimming, does not start with '#' and has
\* six whitespace-separated tokens or more.
Qualifies(line) ==
    Strip(line) # <<>> /\ ~StartsWith(line, <<HASH>>) /\ Len(Words(line)) >= 6

\* The entry of such a line: the first five tokens, and the remaining ones,
\* each joined by single spaces.
TokensEntry(line) ==
    LET w == Words(line)
    IN  Entry(Join(<<SP>>, SubSeq(w, 6, Len(w))), Join(<<SP>>, SubSeq(w, 1, 5)))

\* The entries of the qualifying lines of a text, in table order.
TokensEntries(output) ==
    LET qs == SelectSeq(SplitLines(output), Qualifies)
    IN  [k \in 1..Len(qs) |-> TokensEntry(qs[k])]

\* C21: on a readable table get_all returns, without error, exactly one entry
\* in table order for each line that is not blank, does not start with '#'
\* and has at least six tokens: interval the first five tokens, command the
\* remaining ones, never empty. (The claim as stated; the code breaks it.)
C21_GetAllParse ==
    (last.op = "get_all" /\ last.listed)
    => /\ ~last.raised
       /\ last.entries = TokensEntries(last.output)
       /\ \A k \in 1..Len(last.entries) : last.entries[k].command # <<>>

\* The positions of the entries of a list that have this command.
Matched(entries, command) == {k \in 1..Len(entries) : entries[k].command = command}

\* C22: an edit that matches a line and is given only a new command leaves
\* the interval get_all reports for that entry as it was, and one given only
\* a new interval leaves its command as it was, also when the command occurs
\* inside the interval. (The claim as stated; the code breaks it.)
C22_EditOnlyGivenField ==
    [][(EndsCall /\ last'.op = "edit" /\ last'.wrote)
       => LET before == GetAllOf(table)
              after == GetAllOf(table')
              kw == last'.kw
          IN  /\ Len(after) = Len(before)
              /\ \A k \in Matched(before, last'.command) :
                    /\ (kw.hasCommand /\ kw.interval = Empty)
                          => after[k].interval = before[k].interval
                    /\ (~kw.hasCommand /\ kw.interval # Empty)
                          => after[k].command = before[k].command]_vars

\* The lines of a listing that edit and delete match: data lines whose parsed
\* command is the matching_command.
MatchedLines(output, command) ==
    {k \in 1..Len(SplitLines(output)) :
        ~IsSkipped(SplitLines(output)[k]) /\ ParseCommand(SplitLines(output)[k]) = command}

\* What edit makes of a line it matches: the interval text replaced if a new
\* interval is given, then the command text replaced.
Rewritten(line, kw, command) ==
    LET l1 == IF kw.interval # Empty
              THEN Replace(line, ParseInterval(line), kw.interval) ELSE line
    IN  Replace(l1, ParseCommand(line), IF kw.hasCommand THEN kw.command ELSE command)

\* C23: when several data lines have the parsed command matching_command, one
\* edit applies its replacement to every one of them, not only to the first.
C23_EditAllMatches ==
    Installed("edit") =>
        \A k \in MatchedLines(last.output, last.command) :
            /\ k <= Len(SplitLines(table))
            /\ SplitLines(table)[k]
                   = Rewritten(SplitLines(last.output)[k], last.kw, last.command)

\* C23's case: an edit has matched two lines of different intervals and has
\* changed both of them.
C23_Witness ==
    /\ Installed("edit")
    /\ \E j, k \in MatchedLines(last.output, last.command) :
          /\ j < k
          /\ ParseInterval(SplitLines(last.output)[j]) # ParseInterval(SplitLines(last.output)[k])
          /\ SplitLines(table)[j] # SplitLines(last.output)[j]
          /\ SplitLines(table)[k] # SplitLines(last.output)[k]

\* C24: when the listing fails, add does not raise: it installs a table of
\* exactly the one line 'interval command' and its newline, and returns the
\* Entry.
C24_AddNoTable ==
    (last.op = "add" /\ ~last.listed /\ CronValid(last.command, last.interval))
    => /\ ~last.raised
       /\ last.wrote
       /\ last.entries = <<Entry(last.command, last.interval)>>
       /\ hasTable
       /\ table = last.interval \o <<SP>> \o last.command \o <<NL>>

\* C24's case: an add has ended that began on a user without a table.
C24_Witness ==
    /\ last.op = "add" /\ ~last.listed /\ last.wrote
    /\ last.reads = 1
    /\ hasTable

\* The abstract list of (command, interval) pairs: add appends a pair,
\* delete removes every pair of a command, edit rewrites every pair of a
\* command in place.
AbsAdd(entries, command, interval) == Append(entries, Entry(command, interval))
AbsDelete(entries, command) == Without(entries, command)
AbsEdit(entries, command, kw) ==
    [k \in 1..Len(entries) |->
        IF entries[k].command = command
        THEN Entry(IF kw.hasCommand THEN kw.command ELSE command,
                   IF kw.interval # Empty THEN kw.interval ELSE entries[k].interval)
        ELSE entries[k]]

Outcome(op, command, interval, kw, h, t) ==
    LET output == IF h THEN t ELSE Empty
        same == [raised |-> FALSE, ret |-> FALSE, entries |-> <<>>,
                 hasTable |-> h, table |-> t]
    IN  IF op = "add"
        THEN IF command = Empty \/ ~IsValidCronFormat(interval)
             THEN [same EXCEPT !.raised = TRUE]
             ELSE [same EXCEPT !.entries = <<Entry(command, interval)>>,
                               !.hasTable = TRUE,
                               !.table = output \o interval \o <<SP>> \o command \o <<NL>>]
        ELSE IF op = "get_all"
        THEN IF h /\ ~IntervalsValid(GetAllOf(t))
             THEN [same EXCEPT !.raised = TRUE]
             ELSE [same EXCEPT !.entries = GetAllOf(output)]
        ELSE IF command = Empty
        THEN [same EXCEPT !.raised = TRUE]
        ELSE IF ~h
        THEN same
        ELSE IF op = "delete"
        THEN [same EXCEPT !.ret = TRUE, !.table = DeleteText(t, command)]
        ELSE IF MatchedLines(t, command) # {}
        THEN [same EXCEPT !.ret = TRUE,
                          !.table = EditText(t, command, NewCommand(command, kw),
                                             NewInterval(kw))]
        ELSE same

\* C26: the backend keeps no state between calls: what add, get_all, edit and
\* delete return and the table they leave are a function of the arguments
\* and of the table at the time of the call, whatever the calls before and
\* whoever wrote the table.
C26_Stateless ==
    [][(EndsCall /\ last'.op \in {"add", "get_all", "edit", "delete"})
       => [raised |-> last'.raised, ret |-> last'.ret, entries |-> last'.entries,
           hasTable |-> hasTable', table |-> table']
          = Outcome(last'.op, last'.command, last'.interval, last'.kw, hasTable, table)]_vars

\* C26's case: a delete has ended on a table that an outside tool can install
\* and that the library can build as well (no table, then two adds).
C26_Witness ==
    /\ last.op = "delete" /\ last.wrote
    /\ last.output = Ext_plain
    /\ Ext_plain = AddText(AddText(Empty, Cmd_1, Ivl_one), Cmd_a, Ivl_star)
    /\ table # last.output

\* C27: inside one call the listing read comes before the install write and
\* each happens at most once: a call at its install step has read once and
\* not yet written; add writes exactly once; delete writes exactly once
\* whenever its read succeeded, matched or not; edit writes exactly once if a
\* line matched and not at all otherwise; get_all never writes.
C27_StepOrder ==
    /\ \A p \in Clients : pc[p] # "idle" => cur[p].reads = 1 /\ cur[p].writes = 0
    /\ (last.op \in {"add", "edit", "delete"} /\ last.raised)
          => last.reads = 0 /\ last.writes = 0
    /\ (last.op = "add" /\ ~last.raised) => last.reads = 1 /\ last.writes = 1
    /\ (last.op = "delete" /\ ~last.raised)
          => last.reads = 1 /\ last.writes = IF last.listed THEN 1 ELSE 0
    /\ (last.op = "edit" /\ ~last.raised)
          => /\ last.reads = 1
             /\ last.writes = IF last.listed /\ MatchedLines(last.output, last.command) # {}
                               THEN 1 ELSE 0
    /\ last.op = "get_all" => last.reads = 1 /\ last.writes = 0
    /\ last.op \in {"add", "edit", "delete", "get_all"} => (last.wrote <=> last.writes = 1)

\* C27's case: a delete has read a table in which no line matched, and has
\* written once all the same.
C27_Witness ==
    /\ last.op = "delete" /\ last.listed
    /\ MatchedLines(last.output, last.command) = {}
    /\ GetAllOf(last.output) # <<>>
    /\ last.reads = 1 /\ last.writes = 1

\* C28: a constructor replaces the whole table by a single comment line,
\* whatever the table held before and whoever wrote it: right after it
\* get_all returns the empty sequence, so the entries added through an
\* earlier instance are gone.
C28_ConstructReplaces ==
    last.op = "init"
    => /\ hasTable
       /\ table = Header
       /\ Len(SplitLines(table)) = 2
       /\ StartsWith(SplitLines(table)[1], <<HASH>>) /\ SplitLines(table)[2] = <<>>
       /\ Outcome("get_all", Empty, Empty, NoKw, hasTable, table).entries = <<>>
       /\ ~Outcome("get_all", Empty, Empty, NoKw, hasTable, table).raised

\* C28's case: a constructor has ended that began on a table with entries.
C28_Witness ==
    /\ last.op = "init" /\ last.hadTable /\ last.hadEntries
    /\ calls > 0

\* C29: in every state reached from construction by add, edit and delete the
\* installed table is not empty and ends with a newline, so the line add
\* appends is a line of its own, never joined to the last existing line.
C29_EndsWithNewline ==
    /\ hasTable
    /\ table # <<>>
    /\ table[Len(table)] = NL
    /\ Installed("add")
          => LET ls == SplitLines(table)
                 n == Len(SplitLines(last.output))
             IN  /\ Len(ls) = n + 1
                 /\ ls[n] = last.interval \o <<SP>> \o last.command
                 /\ \A k \in 1..(n - 1) : ls[k] = SplitLines(last.output)[k]

\* C29's case: an add after an edit or a delete has left its blank line at
\* the end of the table: the new line follows the blank line.
C29_Witness ==
    /\ Installed("add")
    /\ LET old == SplitLines(last.output)
       IN  /\ Len(old) >= 3
           /\ old[Len(old) - 1] = <<>>
           /\ SplitLines(table)[Len(old)] = last.interval \o <<SP>> \o last.command

\* C30: an edit that returns without raising, whatever new command and new
\* interval it is given, leaves the number of entries get_all returns as it
\* was, and the entries of other commands keep their position, command and
\* interval. (The claim as stated; the code breaks it.)
C30_EditKeepsCount ==
    [][(EndsCall /\ last'.op = "edit" /\ ~last'.raised)
       => LET before == GetAllOf(table)
              after == GetAllOf(table')
          IN  /\ Len(after) = Len(before)
              /\ \A k \in 1..Len(before) :
                    before[k].command # last'.command => after[k] = before[k]]_vars

\* C31: no temporary file outlives the call that created it: when the
\* constructor, add, edit or delete has ended, by returning or by raising
\* because crontab <file> failed, its temporary file no longer exists. (The
\* claim as stated; the code breaks it.)
C31_NoTempFileLeft ==
    (/\ Idle
     /\ last.op \in {"init", "add", "edit", "delete"}
     /\ last.fault \in {"none", "install"})
    => ~last.tmp

=============================================================================
